---- MODULE Spec2Model ----
(***************************************************************************)
(* The asynchronous GeoServer tasks of geonode/geoserver/tasks.py as a     *)
(* state machine.  Every delivery of a task message is an invocation; an   *)
(* invocation is a sequence of attempts (the first run and its retries).   *)
(* One action is one step of a task between two calls that an observer of  *)
(* the registry, the catalog or the lock can tell apart.                   *)
(*                                                                         *)
(* Failure model: a call to the catalog, to the file system, to a model    *)
(* hook or helper, and every call the tasks wrap in try/except, may raise; *)
(* the single-statement flag updates outside any try block (the dirty      *)
(* flag, the Upload Record, the session reset of the reconciler), the      *)
(* registry reads, the sending of a signal and the optional rebuild of the *)
(* search index are taken to succeed.                                      *)
(***************************************************************************)
EXTENDS Integers, Sequences, FiniteSets, TLC

\* ------------------------------------------------------------------ bounds
NInv == 2
MaxLag == 3
MaxSetting == 2

\* longest run of characters tried after the optional prefix of an SRID
MaxDigits == 7

\* ------------------------------------------------------- program constants
max_retries == 3
DefaultMaxRetries == 2
\* the code of the standard geographic reference system
FallbackSrid == 4326

Inv == 1..NInv
NoHolder == 0
\* lock_id of a task called directly: f'{self.request.id}' with no request id
NoneKey == "None"
Keys == {"k1"}

Kinds == {"update_layers", "set_style", "create_style", "finalize_upload",
          "post_save_layers", "create_thumbnail", "cascading_delete"}

VARIABLES
    task,      \* per invocation: the task, its request id and its arguments
    pc,        \* per invocation: position in the task
    retries,   \* per invocation: self.request.retries
    loc,       \* per invocation: the local variables of the running attempt
    lock,      \* the lock backend: lock_id -> holder
    res,       \* the registry's Layer / ResourceBase row
    sess,      \* processed flag of the Resource's UploadSession rows
    upload,    \* the registry's Upload row
    cat,       \* the GeoServer catalog
    sig,       \* signals sent so far
    settings   \* ogc_server_settings

vars == <<task, pc, retries, loc, lock, res, sess, upload, cat, sig, settings>>

\* ------------------------------------------------------------- data values
Styles == {"generic", "lyr"}
\* the style named after the Layer (name=instance.name)
LayerStyle == "lyr"
QualifiedName == "geonode:lyr"

\* an SRID is a string, kept as the sequence of its characters
NoSrid == <<>>
EPSGPrefix == <<"E", "P", "S", "G", ":">>
EPSG4326 == EPSGPrefix \o <<"4", "3", "2", "6">>
EPSG3857 == EPSGPrefix \o <<"3", "8", "5", "7">>
Newline == "\n"

NeedsInstance_none(kind) == FALSE

NeedsInstance(kind) ==
    kind \in {"set_style", "create_style", "finalize_upload",
              "post_save_layers", "create_thumbnail"}

\* local variables of one attempt, as they are when the attempt starts; exc
\* is the exception an attempt has ended with, until the executor has dealt
\* with it; pushes counts the calls of geoserver_upload the attempt has made;
\* synced holds the catalog sync steps the reconciler has just executed
LocInit ==
    [ran |-> FALSE, nested |-> FALSE, gs |-> FALSE, tries |-> 0, attempts |-> 0,
     old |-> "", alternate |-> "", store |-> "", storeType |-> "",
     srid |-> NoSrid, bbox |-> FALSE, sridv |-> NoSrid, trig |-> 1,
     marks |-> 0, dirtied |-> FALSE, failed |-> {}, exc |-> "", pushes |-> 0,
     synced |-> {}]

\* instance = Layer.objects.get(id=instance_id): the in-memory copy of the row
LoadInstance(l, r) ==
    [l EXCEPT !.alternate = r.alternate, !.store = r.store,
              !.storeType = r.storeType, !.srid = r.srid, !.bbox = r.bbox]

\* --------------------------------------------------------------- the lock
\* acquire(key) -> bool: true iff the caller became the exclusive holder
acquire(l, k) == l[k] = NoHolder

LockTaken(l, k, i) == IF acquire(l, k) THEN [l EXCEPT ![k] = i] ELSE l

\* release(key): idempotent, frees only the caller's own hold
release(l, k, i) == IF l[k] = i THEN [l EXCEPT ![k] = NoHolder] ELSE l

\* leaving every `with AcquireLock(...)` block the invocation is in
ReleaseAll(l, i) == [k \in DOMAIN l |-> IF l[k] = i THEN NoHolder ELSE l[k]]

EntersBody_always(acquired) == TRUE

\* `if lock.acquire() is True:` guards every task body
EntersBody(acquired) == acquired

\* ------------------------------------------------------- the Task Executor
Goto(i, p) == pc' = [pc EXCEPT ![i] = p]

\* the task function returns: the with block releases the lock, and the
\* request with its local variables and its retry count is gone
Return(i) ==
    /\ Goto(i, "done")
    /\ lock' = ReleaseAll(lock, i)
    /\ loc' = [loc EXCEPT ![i] = LocInit]
    /\ retries' = [retries EXCEPT ![i] = 0]

RetryAllowed_never(n) == FALSE

\* autoretry_for=(Exception,), retry_kwargs={'max_retries': 3}
RetryAllowed(n) == n < max_retries

Raise_holding(i, e) ==
    /\ UNCHANGED lock
    /\ loc' = [loc EXCEPT ![i] = [LocInit EXCEPT !.exc = e]]
    /\ IF RetryAllowed(retries[i])
       THEN /\ Goto(i, "retry")
            /\ retries' = [retries EXCEPT ![i] = @ + 1]
       ELSE /\ Goto(i, "failed")
            /\ UNCHANGED retries

\* an exception leaves the task function: the with blocks release, then the
\* executor schedules a retry or, past the ceiling, records the failure
Raise(i, e) ==
    /\ lock' = ReleaseAll(lock, i)
    /\ loc' = [loc EXCEPT ![i] = [LocInit EXCEPT !.exc = e]]
    /\ IF RetryAllowed(retries[i])
       THEN /\ Goto(i, "retry")
            /\ retries' = [retries EXCEPT ![i] = @ + 1]
       ELSE /\ Goto(i, "failed")
            /\ UNCHANGED retries

Skip_raising(i) == Raise(i, "Exception")

\* the with block is left with the body not entered: the task function
\* returns None, which the executor takes for success
Skip(i) ==
    /\ Goto(i, "skipped")
    /\ lock' = ReleaseAll(lock, i)
    /\ loc' = [loc EXCEPT ![i] = LocInit]
    /\ retries' = [retries EXCEPT ![i] = 0]

\* the executor runs the scheduled retry: same request id, fresh locals
Requeue(i) ==
    /\ pc[i] = "retry"
    /\ Goto(i, "queued")
    /\ loc' = [loc EXCEPT ![i] = LocInit]
    /\ UNCHANGED <<task, settings, retries, lock, res, sess, upload, cat, sig>>

FirstStep(kind) ==
    CASE kind = "update_layers" -> "gs_slurp"
      [] kind = "set_style" -> "set_layer_style"
      [] kind = "create_style" -> "cs_get_style"
      [] kind = "finalize_upload" -> "f_link"
      [] kind = "post_save_layers" -> "r_enter"
      [] kind = "create_thumbnail" -> "create_gs_thumbnail"
      [] kind = "cascading_delete" -> "cascading_delete"

\* instance = Layer.objects.get(id=instance_id), before the lock is touched;
\* update_layers and cascading_delete look nothing up
get_instance(i) ==
    /\ pc[i] = "queued"
    /\ IF NeedsInstance(task[i].kind) /\ ~res.exists
       THEN /\ Raise(i, "DoesNotExist")
       ELSE /\ Goto(i, "lock")
            /\ loc' = [loc EXCEPT ![i] = LoadInstance(@, res)]
            /\ UNCHANGED <<lock, retries>>
    /\ UNCHANGED <<task, settings, res, sess, upload, cat, sig>>

\* with AcquireLock(lock_id) as lock: if lock.acquire() is True: <body>
with_AcquireLock(i) ==
    /\ pc[i] = "lock"
    /\ LET k == task[i].key
           acquired == acquire(lock, k)
       IN IF EntersBody(acquired)
             THEN /\ lock' = LockTaken(lock, k, i)
                  /\ Goto(i, FirstStep(task[i].kind))
                  /\ loc' = [loc EXCEPT ![i].ran = TRUE]
                  /\ UNCHANGED retries
             ELSE Skip(i)
    /\ UNCHANGED <<task, settings, res, sess, upload, cat, sig>>

\* ---------------------------------------------------- geoserver_update_layers
\* return gs_slurp(*args, **kwargs)
geoserver_update_layers(i) ==
    /\ pc[i] = "gs_slurp"
    /\ \/ Return(i)
       \/ Raise(i, "Exception")
    /\ UNCHANGED <<task, settings, res, sess, upload, cat, sig>>

\* ------------------------------------------------- geoserver_cascading_delete
\* cascading_delete removes the layer and the catalog artifacts it owns
CatalogAfterDelete(c) ==
    [c EXCEPT !.layer = FALSE, !.default = "", !.styles = @ \ {LayerStyle}]

geoserver_cascading_delete_swallowing(i) ==
    /\ pc[i] = "cascading_delete"
    /\ \/ cat' = CatalogAfterDelete(cat)
       \/ UNCHANGED cat
    /\ Return(i)
    /\ UNCHANGED <<task, settings, res, sess, upload, sig>>

\* return cascading_delete(*args, **kwargs)
geoserver_cascading_delete(i) ==
    /\ pc[i] = "cascading_delete"
    /\ \/ /\ cat' = CatalogAfterDelete(cat)
          /\ Return(i)
       \/ /\ Raise(i, "Exception")
          /\ UNCHANGED cat
    /\ UNCHANGED <<task, settings, res, sess, upload, sig>>

\* ------------------------------------------------- geoserver_create_thumbnail
\* create_gs_thumbnail(...); on any exception geoserver_create_thumbnail.retry
geoserver_create_thumbnail(i) ==
    /\ pc[i] = "create_gs_thumbnail"
    /\ \/ Return(i)
       \/ Raise(i, "Exception")
    /\ UNCHANGED <<task, settings, res, sess, upload, cat, sig>>

\* ------------------------------------------------------------ the style tasks
\* the style task ends normally: a task called directly by the finalizer
\* leaves its own with block (lock_id 'None') and the finalizer goes on
StyleReturn(i) ==
    IF loc[i].nested
    THEN /\ Goto(i, "handle_moderated_uploads")
         /\ lock' = release(lock, NoneKey, i)
         /\ loc' = [loc EXCEPT ![i].nested = FALSE]
         /\ UNCHANGED retries
    ELSE /\ Return(i)

\* set_layer_style: the uploaded SLD becomes the layer's style and default
CatalogWithLayerStyle(c) ==
    IF c.layer
    THEN [c EXCEPT !.styles = @ \cup {LayerStyle}, !.default = LayerStyle]
    ELSE c

\* try: sld = open(base_file).read(); set_layer_style(...) except: log
geoserver_set_style(i) ==
    /\ pc[i] = "set_layer_style"
    /\ \/ cat' = CatalogWithLayerStyle(cat)
       \/ UNCHANGED cat
    /\ StyleReturn(i)
    /\ UNCHANGED <<task, settings, res, sess, upload, sig>>

\* the file checks, then gs_catalog.get_style(name=name, workspace=...) or,
\* with no readable SLD, get_sld_for(gs_catalog, instance)
create_style_get_style(i) ==
    /\ pc[i] = "cs_get_style"
    /\ IF task[i].sld_ok
       THEN \/ /\ LayerStyle \in cat.styles
               /\ StyleReturn(i)
            \/ /\ LayerStyle \notin cat.styles
               /\ Goto(i, "cs_create_style")
               /\ UNCHANGED <<lock, retries, loc>>
            \/ /\ Raise(i, "Exception")
       ELSE \/ StyleReturn(i)
            \/ /\ Raise(i, "Exception")
    /\ UNCHANGED <<task, settings, res, sess, upload, cat, sig>>

\* style = gs_catalog.create_style(name, sld, raw=True, workspace=...)
create_style_create(i) ==
    /\ pc[i] = "cs_create_style"
    /\ \/ /\ LayerStyle \notin cat.styles
          /\ cat' = [cat EXCEPT !.styles = @ \cup {LayerStyle}]
          /\ Goto(i, "cs_get_layer")
          /\ UNCHANGED <<lock, retries, loc>>
       \/ /\ Raise(i, "Exception")
          /\ UNCHANGED cat
    /\ UNCHANGED <<task, settings, res, sess, upload, sig>>

\* gs_layer = gs_catalog.get_layer(name); _default_style = gs_layer.default_style
create_style_get_layer(i) ==
    /\ pc[i] = "cs_get_layer"
    /\ \/ /\ cat.layer
          /\ loc' = [loc EXCEPT ![i].old = cat.default]
          /\ Goto(i, "cs_save")
          /\ UNCHANGED <<lock, retries>>
       \/ /\ Raise(i, "Exception")
    /\ UNCHANGED <<task, settings, res, sess, upload, cat, sig>>

CatalogAfterSaveLayer_drop(c) == [c EXCEPT !.default = ""]

\* gs_layer.default_style = style; gs_catalog.save(gs_layer)
CatalogAfterSaveLayer(c) == [c EXCEPT !.default = LayerStyle]

create_style_save(i) ==
    /\ pc[i] = "cs_save"
    /\ \/ /\ cat.layer
          /\ cat' = CatalogAfterSaveLayer(cat)
          /\ Goto(i, "cs_set_styles")
          /\ UNCHANGED <<lock, retries, loc>>
       \/ /\ Raise(i, "Exception")
          /\ UNCHANGED cat
    /\ UNCHANGED <<task, settings, res, sess, upload, sig>>

\* set_styles(instance, gs_catalog)
create_style_set_styles(i) ==
    /\ pc[i] = "cs_set_styles"
    /\ \/ /\ Goto(i, "cs_delete")
          /\ UNCHANGED <<lock, retries, loc>>
       \/ Raise(i, "Exception")
    /\ UNCHANGED <<task, settings, res, sess, upload, cat, sig>>

\* try: gs_catalog.delete(_default_style) except Exception: log
create_style_delete(i) ==
    /\ pc[i] = "cs_delete"
    /\ \/ /\ loc[i].old # ""
          /\ cat' = [cat EXCEPT !.styles = @ \ {loc[i].old}]
       \/ UNCHANGED cat
    /\ StyleReturn(i)
    /\ UNCHANGED <<task, settings, res, sess, upload, sig>>

\* --------------------------------------------------- geoserver_finalize_upload
\* except Exception as e: logger.exception(e) -- the step is logged as failed;
\* `failed` holds the steps that failed in the current phase of the task, and
\* is emptied when the next phase begins
NextPhase(l) == [l EXCEPT !.failed = {}, !.synced = {}]

Logged(i, name) == [loc EXCEPT ![i].failed = @ \cup {name}]

\* upload = Upload.objects.get(import_id=import_id); upload.layer = instance;
\* upload.save(); try: sessions.update(processed=False) except: logged
finalize_link(i) ==
    /\ pc[i] = "f_link"
    /\ upload' = [upload EXCEPT !.layer = TRUE]
    /\ \/ /\ sess' = FALSE
          /\ UNCHANGED loc
       \/ /\ loc' = Logged(i, "sessions.update")
          /\ UNCHANGED sess
    /\ Goto(i, "f_catalog")
    /\ UNCHANGED <<task, settings, retries, lock, res, cat, sig>>

\* instance.storeType / instance.alternate derived from the catalog store
InstanceFromStore(l) ==
    [l EXCEPT !.storeType = "dataStore",
              !.alternate = IF @ = "" THEN QualifiedName ELSE @]

\* gs_resource = gs_catalog.get_resource(...) with its two fallbacks, every
\* lookup failure caught; if gs_resource: title/abstract, gs_catalog.save
finalize_catalog(i) ==
    /\ pc[i] = "f_catalog"
    /\ \/ /\ cat.layer
          /\ loc' = [loc EXCEPT ![i] = InstanceFromStore(@)]
          /\ Goto(i, "f_style")
          /\ UNCHANGED <<lock, retries>>
       \/ /\ cat.layer
          /\ Raise(i, "Exception")
       \/ /\ Goto(i, "f_style")
          /\ UNCHANGED <<lock, retries, loc>>
    /\ UNCHANGED <<task, settings, res, sess, upload, cat, sig>>

\* geoserver_set_style(instance.id, sld_file) or geoserver_create_style(...):
\* the task object is called, so its function runs here, in the finalizer,
\* with a request that has no id
finalize_style(i) ==
    /\ pc[i] = "f_style"
    /\ IF EntersBody(acquire(lock, NoneKey))
       THEN /\ lock' = LockTaken(lock, NoneKey, i)
            /\ loc' = [loc EXCEPT ![i].nested = TRUE]
            /\ Goto(i, IF task[i].sld_uploaded THEN "set_layer_style"
                                               ELSE "cs_get_style")
       ELSE /\ Goto(i, "handle_moderated_uploads")
            /\ UNCHANGED <<lock, loc>>
    /\ UNCHANGED <<task, settings, retries, res, sess, upload, cat, sig>>

\* instance.handle_moderated_uploads()
finalize_moderation(i) ==
    /\ pc[i] = "handle_moderated_uploads"
    /\ \/ /\ Goto(i, "set_permissions")
          /\ UNCHANGED <<lock, retries, loc>>
       \/ /\ Raise(i, "Exception")
    /\ UNCHANGED <<task, settings, res, sess, upload, cat, sig>>

\* if permissions is not None: instance.set_permissions(permissions, ...):
\* nothing to apply or applied, or the application raises
finalize_permissions(i) ==
    /\ pc[i] = "set_permissions"
    /\ \/ /\ Goto(i, "instance_save")
          /\ UNCHANGED <<lock, retries, loc>>
       \/ Raise(i, "Exception")
    /\ UNCHANGED <<task, settings, res, sess, upload, cat, sig>>

\* instance.save(notify=not created) writes the in-memory instance
SavedInstance(r, l) ==
    [r EXCEPT !.alternate = l.alternate, !.store = l.store,
              !.storeType = l.storeType]

finalize_save(i) ==
    /\ pc[i] = "instance_save"
    /\ \/ /\ res' = SavedInstance(res, loc[i])
          /\ Goto(i, "rmtree")
          /\ UNCHANGED <<lock, retries, loc>>
       \/ /\ Raise(i, "Exception")
          /\ UNCHANGED res
    /\ UNCHANGED <<task, settings, sess, upload, cat, sig>>

finalize_cleanup_raising(i) ==
    /\ pc[i] = "rmtree"
    /\ \/ /\ Goto(i, "upload_complete")
          /\ UNCHANGED <<loc, lock, retries>>
       \/ Raise(i, "Exception")
    /\ UNCHANGED <<task, settings, res, sess, upload, cat, sig>>

\* try: shutil.rmtree(tempdir) except Exception: logger.warning
finalize_cleanup(i) ==
    /\ pc[i] = "rmtree"
    /\ \/ UNCHANGED loc
       \/ loc' = Logged(i, "rmtree")
    /\ Goto(i, "upload_complete")
    /\ UNCHANGED <<task, settings, retries, lock, res, sess, upload, cat, sig>>

UploadCompleted_toggled(u) == [u EXCEPT !.complete = ~@]

\* upload.complete = True; upload.save()
UploadCompleted(u) == [u EXCEPT !.complete = TRUE]

\* finally: upload.complete = True; upload.save()
finalize_complete(i) ==
    /\ pc[i] = "upload_complete"
    /\ upload' = UploadCompleted(upload)
    /\ loc' = [loc EXCEPT ![i].marks = @ + 1]
    /\ Goto(i, "upload_complete_send")
    /\ UNCHANGED <<task, settings, retries, lock, res, sess, cat, sig>>

\* signals.upload_complete.send(sender=geoserver_finalize_upload, layer=instance)
finalize_notify(i) ==
    /\ pc[i] = "upload_complete_send"
    /\ sig' = [sig EXCEPT !.upload_complete = @ + 1]
    /\ Return(i)
    /\ UNCHANGED <<task, settings, res, sess, upload, cat>>

\* -------------------------------------------------- geoserver_post_save_layers
Signal(name) == sig' = [sig EXCEPT ![name] = @ + 1]

IsRemoteOrTile_never(r, l) == FALSE

\* a Layer of a remote service, or a tile / remote store: only the signal
IsRemoteOrTile(r, l) ==
    r.remote_service \/ l.storeType \in {"remoteStore", "tileStore"}

\* the two early exits, else: sessions unprocessed, instance.set_dirty_state()
post_save_enter(i) ==
    /\ pc[i] = "r_enter"
    /\ IF IsRemoteOrTile(res, loc[i])
       THEN /\ Signal("post_save_complete")
            /\ Return(i)
            /\ UNCHANGED <<res, sess>>
       ELSE /\ sess' = FALSE
            /\ res' = [res EXCEPT !.dirty = TRUE]
            /\ loc' = [loc EXCEPT ![i].dirtied = TRUE]
            /\ Goto(i, "r_upload")
            /\ UNCHANGED <<lock, retries, sig>>
    /\ UNCHANGED <<task, settings, upload, cat>>

\* geoserver_upload creates the backing store; the new resource becomes
\* visible to lookups after some lag
CatalogAfterUpload(c, lag) ==
    [c EXCEPT !.layer = TRUE, !.lag = lag,
              !.styles = @ \cup {"generic"},
              !.default = IF @ = "" THEN "generic" ELSE @]

\* if not instance.store or overwrite: get_base_file, geoserver_upload
post_save_upload(i) ==
    /\ pc[i] = "r_upload"
    /\ IF loc[i].store = "" \/ res.overwrite
       THEN \/ /\ ~res.base_file
               /\ Return(i)
               /\ UNCHANGED cat
            \/ /\ res.base_file
               /\ \E lag \in 0..MaxLag : cat' = CatalogAfterUpload(cat, lag)
               /\ loc' = [loc EXCEPT ![i].pushes = @ + 1]
               /\ Goto(i, "r_fetch")
               /\ UNCHANGED <<lock, retries>>
            \/ /\ res.base_file
               /\ Raise(i, "Exception")
               /\ UNCHANGED cat
       ELSE /\ Goto(i, "r_fetch")
            /\ UNCHANGED <<lock, retries, loc, cat>>
    /\ UNCHANGED <<task, settings, res, sess, upload, sig>>

\* one lookup of the catalog resource: not found while it is absent or not
\* yet visible; never raises
Found(c) == c.layer /\ c.lag = 0

CatalogAfterLookup(c) == [c EXCEPT !.lag = IF @ > 0 THEN @ - 1 ELSE 0]

fetch_gs_resource(i, l) ==
    [l EXCEPT ![i].gs = Found(cat), ![i].attempts = @ + 1]

\* values, gs_resource = fetch_gs_resource(instance, values, _tries)
post_save_fetch(i) ==
    /\ pc[i] = "r_fetch"
    /\ loc' = fetch_gs_resource(i, loc)
    /\ cat' = CatalogAfterLookup(cat)
    /\ Goto(i, "r_loop")
    /\ UNCHANGED <<task, settings, retries, lock, res, sess, upload, sig>>

\* _max_tries = getattr(ogc_server_settings, "MAX_RETRIES", 2)
_max_tries == settings.MAX_RETRIES

LoopGuard_short(gs, tries) == ~gs /\ tries + 1 < _max_tries

\* while not gs_resource and _tries < _max_tries:
LoopGuard(gs, tries) == ~gs /\ tries < _max_tries

AfterFetch_always(gs) == "r_sync"

\* if gs_resource: <the synchronisation>, else straight to the final block
AfterFetch(gs) == IF gs THEN "r_sync" ELSE "r_sessions"

post_save_loop(i) ==
    /\ pc[i] = "r_loop"
    /\ IF LoopGuard(loc[i].gs, loc[i].tries)
       THEN /\ loc' = [fetch_gs_resource(i, loc) EXCEPT ![i].tries = @ + 1]
            /\ cat' = CatalogAfterLookup(cat)
            /\ UNCHANGED pc
       ELSE /\ Goto(i, AfterFetch(loc[i].gs))
            /\ UNCHANGED <<loc, cat>>
    /\ UNCHANGED <<task, settings, retries, lock, res, sess, upload, sig>>

InstanceFromValues_unnamed(l) ==
    [l EXCEPT !.store = "st", !.storeType = "dataStore"]

\* for key in ['alternate', 'store', 'storeType']: setattr(instance, key, ...)
InstanceFromValues(l) ==
    [l EXCEPT !.alternate = QualifiedName, !.store = "st",
              !.storeType = "dataStore"]

\* the catalog sync steps, in the order of the code
SyncSteps ==
    <<"metadata_links", "attribution", "advertised", "keywords",
      "gs_catalog.save">>

\* the steps inside `try:` ... `except Exception as e:` (428-445)
TrySteps == {"advertised", "keywords", "gs_catalog.save"}

\* the locals after the sync steps before step k have been executed and
\* step k, if there is one, has failed and been logged
SyncedUpTo(l, k) ==
    [l EXCEPT !.synced = {SyncSteps[j] : j \in 1..(k - 1)},
              !.failed = IF k <= Len(SyncSteps) THEN {SyncSteps[k]} ELSE {}]

\* if gs_resource: metadata links, attribution (the profile lookup is not
\* inside a try), values copied to the instance, then advertised / keywords /
\* gs_catalog.save inside one try: the first of these to fail ends the try
post_save_sync(i) ==
    /\ pc[i] = "r_sync"
    /\ \/ /\ \E k \in 1..(Len(SyncSteps) + 1) :
                /\ IF k > Len(SyncSteps) THEN TRUE
                                        ELSE SyncSteps[k] \in TrySteps
                /\ loc' = [loc EXCEPT
                              ![i] = SyncedUpTo(InstanceFromValues(@), k)]
          /\ Goto(i, "r_srid")
          /\ UNCHANGED <<lock, retries>>
       \/ /\ res.poc
          /\ Raise(i, "Exception")
    /\ UNCHANGED <<task, settings, res, sess, upload, cat, sig>>

\* try: srid = gs_resource.projection; bbox = gs_resource.native_bbox;
\*      instance.set_bbox_polygon(...)  except: srid = instance.srid
Retrieved(l, ok) ==
    IF ok
    THEN [l EXCEPT !.srid = cat.projection, !.sridv = cat.projection,
                   !.bbox = TRUE]
    ELSE [l EXCEPT !.sridv = l.srid]

\* neither instance.srid nor instance.bbox_polygon: the configuration error
MissingCRS(l) == l.srid = NoSrid /\ ~l.bbox

\* if instance.srid: srid_url  elif bbox_polygon is not None: 'EPSG:4326'
Guessed(l) == IF l.srid = NoSrid THEN [l EXCEPT !.srid = EPSG4326] ELSE l

post_save_srid(i) ==
    /\ pc[i] = "r_srid"
    /\ \E ok \in BOOLEAN :
          LET l == Retrieved(loc[i], ok)
          IN IF MissingCRS(l)
             THEN Raise(i, "GeoNodeException")
             ELSE /\ loc' = [loc EXCEPT ![i] = NextPhase(Guessed(l))]
                  /\ Goto(i, "r_tx1")
                  /\ UNCHANGED <<lock, retries>>
    /\ UNCHANGED <<task, settings, res, sess, upload, cat, sig>>

\* with transaction.atomic(): the ResourceBase and Layer updates, the native
\* bounding polygon and srid=srid; refresh_from_db
FirstGroup(r, l) ==
    [r EXCEPT !.alternate = l.alternate, !.typename = l.alternate,
              !.workspace = "geonode", !.store = "st",
              !.storeType = l.storeType, !.bbox = TRUE, !.srid = l.sridv]

RolledBack_partial(r, l) == [r EXCEPT !.alternate = l.alternate]

\* an exception leaves `with transaction.atomic():` -- the block's writes are
\* rolled back, the ResourceBase update of its first statement included
RolledBack(r, l) == r

post_save_first_group(i) ==
    /\ pc[i] = "r_tx1"
    /\ \/ /\ res' = FirstGroup(res, loc[i])
          /\ loc' = [loc EXCEPT
                        ![i] = LoadInstance(@, FirstGroup(res, loc[i]))]
       \/ /\ loc' = Logged(i, "group1")
          /\ res' = RolledBack(res, loc[i])
    /\ Goto(i, "r_tx2")
    /\ UNCHANGED <<task, settings, retries, lock, sess, upload, cat, sig>>

IsDigit(c) == c \in {"0", "1", "2", "3", "4", "5", "6", "7", "8", "9"}

DigitValue(c) ==
    CASE c = "0" -> 0 [] c = "1" -> 1 [] c = "2" -> 2 [] c = "3" -> 3
      [] c = "4" -> 4 [] c = "5" -> 5 [] c = "6" -> 6 [] c = "7" -> 7
      [] c = "8" -> 8 [] c = "9" -> 9

\* int(match.group('srid'))
RECURSIVE int(_)
int(d) ==
    IF d = <<>> THEN 0
    ELSE 10 * int(SubSeq(d, 1, Len(d) - 1)) + DigitValue(d[Len(d)])

\* how many characters \d matches from position p on
RECURSIVE DigitRun(_, _)
DigitRun(s, p) ==
    IF p <= Len(s) /\ IsDigit(s[p]) THEN 1 + DigitRun(s, p + 1) ELSE 0

\* `$` with no flags: the end of the string, or just before a newline that
\* is its last character
AtDollar_anywhere(s, p) == TRUE

AtDollar(s, p) == p = Len(s) + 1 \/ (p = Len(s) /\ s[p] = Newline)

\* re.match(r'^(EPSG:)?(?P<srid>\d{4,6})$', str(srid)): the group 'srid' of
\* the match, or no match (the empty sequence).  The greedy run of digits is
\* given back one by one down to 4 until `$` matches
srid_group(s) ==
    LET start == IF Len(s) >= Len(EPSGPrefix)
                    /\ SubSeq(s, 1, Len(EPSGPrefix)) = EPSGPrefix
                 THEN Len(EPSGPrefix) + 1 ELSE 1
        run == DigitRun(s, start)
        taken == {n \in 4..6 : n <= run /\ AtDollar(s, start + n)}
    IN IF taken = {} THEN <<>>
       ELSE LET n == CHOOSE m \in taken : \A k \in taken : k <= m
            IN SubSeq(s, start, start + n - 1)

\* int(match.group('srid')) if match else 4326
ParseSrid(s) ==
    IF srid_group(s) # <<>> THEN int(srid_group(s)) ELSE FallbackSrid

\* with transaction.atomic(): the spatial reference of the normalized
\* polygon, ll_bbox_polygon and srid=srid
SecondGroup(r, l) ==
    [r EXCEPT !.ll_bbox = TRUE, !.ll_srid = ParseSrid(l.sridv),
              !.srid = l.sridv]

\* on failure once more, with instance.bbox_polygon.srid = 4326
SecondGroupForced(r, l) ==
    [r EXCEPT !.ll_bbox = TRUE, !.ll_srid = FallbackSrid, !.srid = l.sridv]

post_save_second_group(i) ==
    /\ pc[i] = "r_tx2"
    /\ \/ /\ res' = SecondGroup(res, loc[i])
          /\ loc' = [loc EXCEPT
                        ![i] = LoadInstance(@, SecondGroup(res, loc[i]))]
       \/ /\ res' = SecondGroupForced(res, loc[i])
          /\ loc' = [Logged(i, "group2") EXCEPT
                        ![i] = LoadInstance(@, SecondGroupForced(res, loc[i]))]
       \/ /\ loc' = Logged(i, "group2")
          /\ UNCHANGED res
    /\ Goto(i, "r_groups_done")
    /\ UNCHANGED <<task, settings, retries, lock, sess, upload, cat, sig>>

\* the write-back is over: the triggers follow
post_save_groups_done(i) ==
    /\ pc[i] = "r_groups_done"
    /\ loc' = [loc EXCEPT ![i] = NextPhase(@)]
    /\ Goto(i, "r_trigger")
    /\ UNCHANGED <<task, settings, retries, lock, res, sess, upload, cat, sig>>

\* catalogue_post_save, set_resource_default_links,
\* set_attributes_from_geoserver, set_styles, the two GeoWebCache calls
Triggers ==
    <<"catalogue_post_save", "set_resource_default_links",
      "set_attributes_from_geoserver", "set_styles", "invalidate_geowebcache">>

post_save_trigger_aborting(i) ==
    /\ pc[i] = "r_trigger"
    /\ \/ /\ loc' = [loc EXCEPT ![i] = [NextPhase(@) EXCEPT !.trig = @ + 1]]
          /\ IF loc[i].trig = Len(Triggers) THEN Goto(i, "r_signal")
                                            ELSE UNCHANGED pc
       \/ /\ loc' = [loc EXCEPT ![i] =
                        [@ EXCEPT !.failed = {Triggers[loc[i].trig]},
                                  !.trig = Len(Triggers) + 1]]
          /\ Goto(i, "r_signal")
    /\ UNCHANGED <<task, settings, retries, lock, res, sess, upload, cat, sig>>

\* each trigger in its own try / except, each a phase of its own
post_save_trigger(i) ==
    /\ pc[i] = "r_trigger"
    /\ \/ loc' = [loc EXCEPT ![i] = [NextPhase(@) EXCEPT !.trig = @ + 1]]
       \/ loc' = [loc EXCEPT ![i] =
                     [@ EXCEPT !.failed = {Triggers[loc[i].trig]},
                               !.trig = @ + 1]]
    /\ IF loc[i].trig = Len(Triggers) THEN Goto(i, "r_signal") ELSE UNCHANGED pc
    /\ UNCHANGED <<task, settings, retries, lock, res, sess, upload, cat, sig>>

\* geoserver_post_save_complete.send(...)
post_save_signal(i) ==
    /\ pc[i] = "r_signal"
    /\ Signal("post_save_complete")
    /\ Goto(i, "r_sessions")
    /\ UNCHANGED <<task, settings, retries, loc, lock, res, sess, upload, cat>>

\* try: sessions.update(processed=True) except: logged
\* finally: instance.clear_dirty_state()
post_save_sessions(i) ==
    /\ pc[i] = "r_sessions"
    /\ \/ /\ sess' = TRUE
          /\ loc' = [loc EXCEPT ![i] = NextPhase(@)]
       \/ /\ loc' = [loc EXCEPT ![i].failed = {"sessions.update"}]
          /\ UNCHANGED sess
    /\ res' = [res EXCEPT !.dirty = FALSE]
    /\ Goto(i, "r_haystack")
    /\ UNCHANGED <<task, settings, retries, lock, upload, cat, sig>>

\* if settings.HAYSTACK_SEARCH: call_command('update_index')
post_save_haystack(i) ==
    /\ pc[i] = "r_haystack"
    /\ Return(i)
    /\ UNCHANGED <<task, settings, res, sess, upload, cat, sig>>

\* ------------------------------------------------------------ the environment
\* the broker delivers the same message (same request id, same arguments)
\* once more; the deliveries are numbered in the order in which a worker
\* takes them up
Deliver(i) ==
    /\ pc[i] = "none"
    /\ i > 1 /\ pc[i - 1] # "none"
    /\ pc[i - 1] # "queued" \/ retries[i - 1] > 0
    /\ Goto(i, "queued")
    /\ UNCHANGED <<task, settings, retries, loc, lock, res, sess, upload, cat, sig>>

\* the transaction that created the Layer commits: the row becomes visible
CommitLayer ==
    /\ ~res.exists
    /\ res' = [res EXCEPT !.exists = TRUE]
    /\ UNCHANGED <<task, settings, pc, retries, loc, lock, sess, upload, cat, sig>>

\* ------------------------------------------------------------- initial states
\* the arguments a task of each kind is sent with
TaskArgs(kind) ==
    [kind : {kind}, key : Keys,
     sld_uploaded : IF kind = "finalize_upload" THEN BOOLEAN ELSE {FALSE},
     sld_ok : IF kind \in {"finalize_upload", "create_style"}
              THEN BOOLEAN ELSE {TRUE}]

\* a Layer right after the upload created it: no store, no alternate yet
NewLayer ==
    [exists |-> TRUE, store |-> "", workspace |-> "", alternate |-> "",
     typename |-> "", storeType |-> "", remote_service |-> FALSE,
     srid |-> NoSrid, bbox |-> FALSE, ll_bbox |-> FALSE, ll_srid |-> 0,
     dirty |-> FALSE,
     poc |-> TRUE, base_file |-> TRUE, overwrite |-> FALSE]

\* a Layer an earlier reconciliation has linked to its catalog store
LinkedLayer ==
    [NewLayer EXCEPT !.store = "st", !.workspace = "geonode",
                     !.alternate = QualifiedName, !.typename = QualifiedName,
                     !.storeType = "dataStore", !.srid = EPSG3857,
                     !.bbox = TRUE, !.ll_bbox = TRUE, !.ll_srid = 3857]

\* the rows a task of each kind is tried on: only the reconciler reads the
\* base file, the bounding polygon, the SRID and the remote / tile markers
Layers(kind) ==
    {NewLayer, [NewLayer EXCEPT !.exists = FALSE], LinkedLayer}
    \cup IF kind = "post_save_layers"
         THEN {[NewLayer EXCEPT !.base_file = FALSE],
               [NewLayer EXCEPT !.bbox = TRUE],
               [NewLayer EXCEPT !.srid = EPSG4326, !.bbox = TRUE,
                                !.poc = FALSE],
               [LinkedLayer EXCEPT !.storeType = "tileStore"],
               [LinkedLayer EXCEPT !.storeType = "remoteStore"],
               [LinkedLayer EXCEPT !.remote_service = TRUE]}
         ELSE {}

Catalogs ==
    {[layer |-> FALSE, lag |-> 0, styles |-> {}, default |-> "",
      projection |-> EPSG4326],
     [layer |-> TRUE, lag |-> 0, styles |-> {"generic"},
      default |-> "generic", projection |-> EPSG4326]}

Init ==
    /\ \E t \in UNION {TaskArgs(k) : k \in Kinds} :
          /\ t.sld_uploaded => t.sld_ok
          /\ task = [i \in Inv |-> t]
          /\ res \in Layers(t.kind)
          /\ settings \in [MAX_RETRIES : IF t.kind = "post_save_layers"
                                             /\ res = NewLayer
                                          THEN 0..MaxSetting
                                          ELSE {DefaultMaxRetries}]
    /\ pc = [i \in Inv |-> IF i = 1 THEN "queued" ELSE "none"]
    /\ retries = [i \in Inv |-> 0]
    /\ loc = [i \in Inv |-> LocInit]
    /\ lock = [k \in Keys \cup {NoneKey} |-> NoHolder]
    /\ sess = TRUE
    /\ upload = [layer |-> FALSE, complete |-> FALSE]
    /\ cat \in Catalogs
    /\ sig = [upload_complete |-> 0, post_save_complete |-> 0]

Next ==
    \/ \E i \in Inv :
          \/ get_instance(i)
          \/ with_AcquireLock(i)
          \/ Requeue(i)
          \/ geoserver_update_layers(i)
          \/ geoserver_cascading_delete(i)
          \/ geoserver_create_thumbnail(i)
          \/ geoserver_set_style(i)
          \/ create_style_get_style(i)
          \/ create_style_create(i)
          \/ create_style_get_layer(i)
          \/ create_style_save(i)
          \/ create_style_set_styles(i)
          \/ create_style_delete(i)
          \/ finalize_link(i)
          \/ finalize_catalog(i)
          \/ finalize_style(i)
          \/ finalize_moderation(i)
          \/ finalize_permissions(i)
          \/ finalize_save(i)
          \/ finalize_cleanup(i)
          \/ finalize_complete(i)
          \/ finalize_notify(i)
          \/ post_save_enter(i)
          \/ post_save_upload(i)
          \/ post_save_fetch(i)
          \/ post_save_loop(i)
          \/ post_save_sync(i)
          \/ post_save_srid(i)
          \/ post_save_first_group(i)
          \/ post_save_second_group(i)
          \/ post_save_groups_done(i)
          \/ post_save_trigger(i)
          \/ post_save_signal(i)
          \/ post_save_sessions(i)
          \/ post_save_haystack(i)
    \/ \E i \in Inv : Deliver(i)
    \/ CommitLayer

Spec == Init /\ [][Next]_vars

\* ------------------------------------------- the spatial-reference parse alone
\* the strings str(srid) is tried on: with and without the prefix, in the
\* wrong case, without the colon; digits and other characters in runs of up
\* to MaxDigits; with and without a newline at the end
SridPrefixes ==
    {<<>>, EPSGPrefix, <<"e", "p", "s", "g", ":">>, <<"E", "P", "S", "G">>}

SridBodies == UNION {[1..n -> {"0", "7", "x"}] : n \in 0..MaxDigits}

SridInputs ==
    {p \o b \o e : p \in SridPrefixes, b \in SridBodies,
                   e \in {<<>>, <<Newline>>}}
    \cup {EPSG3857, EPSG4326, <<"4", "3", "2", "6">>,
          <<"g", "a", "r", "b", "a", "g", "e">>}

\* the locals of an attempt of the reconciler that has found the catalog
\* resource, with srid the value it goes into the second update group with
AtSecondGroup(srid) ==
    [LocInit EXCEPT !.ran = TRUE, !.gs = TRUE, !.attempts = 1,
                    !.alternate = QualifiedName, !.store = "st",
                    !.storeType = "dataStore", !.srid = srid, !.bbox = TRUE,
                    !.sridv = srid, !.dirtied = TRUE]

\* an attempt of the reconciler stands before the second update group: the
\* first group has committed, the local srid is any of the strings above
InitParse ==
    /\ task = [i \in Inv |-> [kind |-> "post_save_layers", key |-> "k1",
                              sld_uploaded |-> FALSE, sld_ok |-> TRUE]]
    /\ pc = [i \in Inv |-> IF i = 1 THEN "r_tx2" ELSE "none"]
    /\ retries = [i \in Inv |-> 0]
    /\ \E srid \in SridInputs :
          /\ loc = [i \in Inv |-> IF i = 1 THEN AtSecondGroup(srid)
                                            ELSE LocInit]
          /\ res = [FirstGroup(LinkedLayer, AtSecondGroup(srid))
                      EXCEPT !.dirty = TRUE]
          /\ cat = [layer |-> TRUE, lag |-> 0, styles |-> {"generic"},
                    default |-> "generic", projection |-> srid]
    /\ lock = [k \in Keys \cup {NoneKey} |-> IF k = "k1" THEN 1 ELSE NoHolder]
    /\ sess = FALSE
    /\ upload = [layer |-> FALSE, complete |-> FALSE]
    /\ sig = [upload_complete |-> 0, post_save_complete |-> 0]
    /\ settings = [MAX_RETRIES |-> DefaultMaxRetries]

NextParse == \E i \in Inv : post_save_second_group(i)

SpecParse == InitParse /\ [][NextParse]_vars

\* ================================================================ properties
Ended == {"done", "skipped", "retry", "failed"}
Raised == {"retry", "failed"}

\* invocation i takes a step that ends its attempt
Ends(i) == pc[i] \notin Ended \cup {"none"} /\ pc'[i] \in Ended

\* invocation i takes a step
Steps(i) == pc'[i] # pc[i] \/ loc'[i] # loc[i]

\* invocation i is inside a task body
InBody(i) == loc[i].ran

\* C1: two invocations that started with the same lock key are never both
\* inside the task body; the one inside is the holder of the lock.
C1_MutualExclusion ==
    /\ \A i, j \in Inv :
          (i # j /\ task[i].key = task[j].key) => ~(InBody(i) /\ InBody(j))
    /\ \A i \in Inv : InBody(i) => lock[task[i].key] = i

\* one delivery is in the body while a duplicate has come back from the lock
\* with the body not entered
C1_Witness ==
    \E i, j \in Inv :
        /\ i # j
        /\ task[i].key = task[j].key
        /\ InBody(i)
        /\ pc[j] = "skipped"

\* C2: in each of the seven tasks, an invocation that does not get the lock
\* returns without error and without a retry, leaving the registry, the
\* catalog, the notifications and the lock as they were.
C2_FailedAcquisitionIsNoOp ==
    [][\A i \in Inv :
          (pc[i] = "lock" /\ pc'[i] # "lock" /\ ~acquire(lock, task[i].key))
          => /\ pc'[i] = "skipped"
             /\ retries'[i] = 0
             /\ UNCHANGED <<res, sess, upload, cat, sig, lock>>]_vars

\* a duplicate has returned from a failed acquisition while the holder of
\* the lock is at the first step of the body
C2_Witness ==
    \E i, j \in Inv :
        /\ i # j
        /\ pc[j] = "skipped"
        /\ lock[task[j].key] = i
        /\ pc[i] = FirstStep(task[i].kind)

\* C3: every attempt of the reconciler that set the dirty flag has cleared it
\* when the attempt ends, whichever way it ends.
C3_DirtyClearedOnEveryExit ==
    [][\A i \in Inv :
          (task[i].kind = "post_save_layers" /\ loc[i].dirtied /\ Ends(i))
          => ~res'.dirty]_vars

\* C4: an attempt of the finalizer that has linked the Upload Record marks it
\* complete exactly once before it ends, whatever stage has failed.
C4_CompleteExactlyOnce ==
    [][\A i \in Inv :
          (task[i].kind = "finalize_upload" /\ InBody(i) /\ pc[i] # "f_link"
             /\ Ends(i))
          => loc[i].marks = 1]_vars

\* C5: the reconciler looks the catalog resource up at most MAX_RETRIES + 1
\* times, and gives up only after that many lookups have all found nothing:
\* a lookup that succeeds after fewer than MAX_RETRIES failures is obtained.
C5_BoundedFetch ==
    \A i \in Inv :
        /\ loc[i].attempts <= _max_tries + 1
        /\ (pc[i] = "r_loop") => loc[i].attempts = loc[i].tries + 1
        /\ (pc[i] \in {"r_sessions", "r_haystack"} /\ ~loc[i].gs)
           => loc[i].attempts = _max_tries + 1

\* the resource is obtained by the last lookup but one that the setting
\* allows, after MAX_RETRIES - 1 lookups that found nothing
C5_Witness ==
    \E i \in Inv :
        /\ pc[i] = "r_sync"
        /\ loc[i].gs
        /\ _max_tries = MaxSetting
        /\ loc[i].attempts = _max_tries

CsPcs == {"cs_get_style", "cs_create_style", "cs_get_layer", "cs_save",
          "cs_set_styles", "cs_delete"}

\* C6: at every point of geoserver_create_style the layer of the catalog has
\* a default style that exists, and the step that deletes the old style never
\* makes the task fail.
C6_DefaultStyleKept ==
    /\ [](\A i \in Inv :
             (pc[i] \in CsPcs /\ cat.layer)
             => (cat.default # "" /\ cat.default \in cat.styles))
    /\ [][\A i \in Inv :
             (pc[i] = "cs_delete" /\ pc'[i] # "cs_delete")
             => pc'[i] \notin Raised]_vars

\* the new default is in place and the old one is not yet deleted
C6_Witness ==
    \E i \in Inv :
        /\ pc[i] = "cs_delete"
        /\ loc[i].old = "generic"
        /\ cat.default = LayerStyle
        /\ {"generic", LayerStyle} \subseteq cat.styles

\* C7 as written: when neither an SRID nor a bounding polygon can be resolved
\* the reconciler raises a configuration error that is not retried.
C7_ConfigErrorNotRetried ==
    [][\A i \in Inv :
          (pc[i] = "r_srid" /\ pc'[i] \in Raised) => pc'[i] = "failed"]_vars

\* C7: the reconciler leaves the SRID step by a raise exactly when neither an
\* SRID nor a bounding polygon is resolved; what it raises is the
\* GeoNodeException, and the executor retries it like any other exception,
\* until max_retries retries have been made.
C7_ConfigErrorRaisedAndRetried ==
    [][\A i \in Inv :
          (pc[i] = "r_srid" /\ pc'[i] # "r_srid")
          => /\ (pc'[i] \in Raised)
                <=> (MissingCRS(loc[i]) /\ ~loc'[i].bbox)
             /\ (pc'[i] \in Raised)
                => /\ loc'[i].exc = "GeoNodeException"
                   /\ (pc'[i] = "retry") <=> (retries[i] < max_retries)
                   /\ (pc'[i] = "retry") => (retries'[i] = retries[i] + 1)
             /\ (pc'[i] \notin Raised) => pc'[i] = "r_tx1"]_vars

\* the configuration error has been raised and the attempt awaits its retry
C7_Witness ==
    \E i \in Inv :
        /\ pc[i] = "retry"
        /\ loc[i].exc = "GeoNodeException"
        /\ retries[i] > 0

\* the tasks that are given the id of a Layer
LayerTasks == {"set_style", "create_style", "finalize_upload",
               "post_save_layers", "create_thumbnail"}

\* C8 as written, for geoserver_set_style, whose body raises nothing, so that
\* its retries are those of a Layer not found: a retry that has found the
\* Layer executes the task body.
C8_RetryAlwaysRunsBody ==
    [][\A i \in Inv :
          (task[i].kind = "set_style" /\ retries[i] > 0
             /\ pc[i] = "lock" /\ pc'[i] # "lock")
          => loc'[i].ran]_vars

\* C8: an invocation of a task that looks its Layer up and does not find it
\* raises DoesNotExist before it touches the lock, the registry or the
\* catalog; it is retried until max_retries retries have been made and never
\* more; a retry that finds the Layer executes the task body if it gets the
\* lock, and is skipped if a duplicate delivery holds it.
C8_MissingResource ==
    /\ [](\A i \in Inv : retries[i] <= max_retries)
    /\ [][\A i \in Inv :
             (task[i].kind \in LayerTasks /\ pc[i] = "queued"
                /\ pc'[i] # "queued" /\ ~res.exists)
             => /\ pc'[i] \in Raised
                /\ loc'[i].exc = "DoesNotExist"
                /\ (pc'[i] = "retry") <=> (retries[i] < max_retries)
                /\ (pc'[i] = "retry") => (retries'[i] = retries[i] + 1)
                /\ UNCHANGED <<res, sess, upload, cat, sig, lock>>]_vars
    /\ [][\A i \in Inv :
             (task[i].kind \in LayerTasks /\ retries[i] > 0
                /\ pc[i] = "lock" /\ pc'[i] # "lock")
             => IF acquire(lock, task[i].key)
                THEN loc'[i].ran /\ pc'[i] = FirstStep(task[i].kind)
                ELSE pc'[i] = "skipped"]_vars

\* a retry of geoserver_set_style is in the task body; the body of that task
\* raises nothing, so that what was retried is the missing Layer
C8_Witness ==
    \E i \in Inv :
        /\ task[i].kind = "set_style"
        /\ pc[i] = "set_layer_style"
        /\ retries[i] > 0
        /\ res.exists

\* C9: once the finalizer has reached the style assignment, no outcome of the
\* style task ends the finalizer's attempt: the attempt goes on to the
\* moderation hook and the stages after it.
C9_StyleIsFireAndForget ==
    [][\A i \in Inv :
          (task[i].kind = "finalize_upload" /\ loc[i].nested /\ Steps(i))
          => pc'[i] \notin Ended]_vars

CatalogDerived(r) ==
    <<r.alternate, r.store, r.workspace, r.storeType, r.typename, r.bbox,
      r.ll_bbox, r.ll_srid, r.srid>>

\* the fetch of the reconciler's running attempt has given up
Exhausted(i) ==
    /\ task[i].kind = "post_save_layers"
    /\ InBody(i)
    /\ ~loc[i].gs
    /\ loc[i].attempts = _max_tries + 1

AfterFirstGroup == {"r_tx2", "r_groups_done", "r_trigger", "r_signal",
                    "r_sessions", "r_haystack"}

GuessedCase(i) ==
    /\ task[i].kind = "post_save_layers"
    /\ loc[i].gs
    /\ pc[i] \in {"r_tx1"} \cup AfterFirstGroup
    /\ loc[i].sridv = NoSrid

\* C12: when the catalog resource is found, the retrieval of its projection
\* fails and the Resource has a bounding polygon but no stored SRID, the
\* attempt does not raise and ends with EPSG:4326 as the SRID of the
\* Resource in the registry.
C12_GuessedSRIDStored ==
    [][\A i \in Inv :
          (GuessedCase(i) /\ Steps(i))
          => /\ pc'[i] \notin Raised
             /\ Ends(i) => res'.srid = EPSG4326]_vars

\* the digits of a string of the form 'EPSG:<digits>' or '<digits>' with 4 to
\* 6 digits; the empty sequence for a string of any other form
CodeDigits(s) ==
    LET AllDigits(d) == \A k \in 1..Len(d) : IsDigit(d[k])
        rest == SubSeq(s, Len(EPSGPrefix) + 1, Len(s))
    IN IF Len(s) \in 4..6 /\ AllDigits(s) THEN s
       ELSE IF /\ Len(s) \in (Len(EPSGPrefix) + 4)..(Len(EPSGPrefix) + 6)
               /\ SubSeq(s, 1, Len(EPSGPrefix)) = EPSGPrefix
               /\ AllDigits(rest)
            THEN rest
            ELSE <<>>

\* the number a string of decimal digits denotes
RECURSIVE Decimal(_)
Decimal(d) ==
    IF d = <<>> THEN 0
    ELSE DigitValue(Head(d)) * 10 ^ (Len(d) - 1) + Decimal(Tail(d))

\* the code C13 gives a string
CodeOf(s) == IF CodeDigits(s) # <<>> THEN Decimal(CodeDigits(s)) ELSE 4326

\* a string without the newline it ends with, if it ends with one
Chomp(s) ==
    IF Len(s) > 0 /\ s[Len(s)] = Newline THEN SubSeq(s, 1, Len(s) - 1) ELSE s

\* the second update group of invocation i has committed at its first try
Parsed(i) ==
    /\ task[i].kind = "post_save_layers"
    /\ pc[i] = "r_groups_done"
    /\ "group2" \notin loc[i].failed

\* C13 as written: the parse gives every string of the form 'EPSG:<digits>'
\* or '<digits>' with 4 to 6 digits its numeric code and every other string
\* 4326, and the step that parses never raises.
C13_ParseAsWritten ==
    /\ [](\A i \in Inv : Parsed(i) => res.ll_srid = CodeOf(loc[i].sridv))
    /\ [][\A i \in Inv :
             (pc[i] = "r_tx2" /\ Steps(i)) => pc'[i] = "r_groups_done"]_vars

\* C13: the parse gives every string of the form 'EPSG:<digits>' or
\* '<digits>' with 4 to 6 digits its numeric code, gives such a string
\* followed by one newline the same code, and gives every other string 4326;
\* "EPSG:3857" gives 3857, "4326" gives 4326, "garbage" gives 4326; the step
\* that parses never raises.
C13_ParseUpToNewline ==
    /\ [](\A i \in Inv :
             Parsed(i) => res.ll_srid = CodeOf(Chomp(loc[i].sridv)))
    /\ [](/\ ParseSrid(EPSG3857) = 3857
          /\ ParseSrid(<<"4", "3", "2", "6">>) = 4326
          /\ ParseSrid(<<"g", "a", "r", "b", "a", "g", "e">>) = 4326)
    /\ [][\A i \in Inv :
             (pc[i] = "r_tx2" /\ Steps(i)) => pc'[i] = "r_groups_done"]_vars

\* "EPSG:3857" has been parsed and 3857 is the code of the stored polygon
C13_Witness ==
    \E i \in Inv :
        /\ Parsed(i)
        /\ loc[i].sridv = EPSG3857
        /\ res.ll_srid = 3857

\* invocation i is a finalizer taking a step when a run of the finalizer has
\* already marked the Upload Record complete
LaterRun(i) ==
    /\ task[i].kind = "finalize_upload"
    /\ upload.complete
    /\ Steps(i)

C15_AlternateImmutable ==
    [][res.alternate # "" => res'.alternate = res.alternate]_vars

\* C16: a failure of a catalog call in the body of geoserver_set_style or of
\* the reconciler's push is not swallowed: the step either takes effect or
\* ends the attempt with an exception that the executor retries.
C16_CatalogFailureSurfaces ==
    [][\A i \in Inv :
          Steps(i)
          => /\ (pc[i] = "set_layer_style" /\ pc'[i] \notin Raised)
                => cat' = CatalogWithLayerStyle(cat)
             /\ (pc[i] = "r_sync" /\ pc'[i] \notin Raised)
                => "gs_catalog.save" \in loc'[i].synced]_vars

\* C17: a step of the cascading deleter either deletes and returns, or ends
\* the attempt with the exception of the remote cleanup, the catalog as it
\* was; the executor then retries, at most max_retries times; the failed
\* attempt has released its lock, no attempt that is waiting for its retry
\* holds a lock, and a retry that finds the lock free executes the delete
\* again.
C17_DeleteErrorRetried ==
    /\ [](\A i \in Inv :
             /\ retries[i] <= max_retries
             /\ pc[i] \in {"retry", "queued", "lock", "failed"}
                => \A k \in DOMAIN lock : lock[k] # i)
    /\ [][\A i \in Inv :
             (task[i].kind = "cascading_delete" /\ Steps(i))
             => /\ (pc[i] = "cascading_delete")
                   => \/ /\ pc'[i] = "done"
                         /\ cat' = CatalogAfterDelete(cat)
                      \/ /\ pc'[i] \in Raised
                         /\ cat' = cat
                         /\ (pc'[i] = "retry") <=> (retries[i] < max_retries)
                         /\ (pc'[i] = "retry")
                            => retries'[i] = retries[i] + 1
                         /\ lock'[task[i].key] = NoHolder
                /\ (pc[i] = "retry") => pc'[i] = "queued"
                /\ (pc[i] = "queued") => pc'[i] = "lock"
                /\ (pc[i] = "lock" /\ lock[task[i].key] = NoHolder)
                   => pc'[i] = "cascading_delete"]_vars

\* a retry of the cascading deleter holds the lock and is about to execute
\* the delete again
C17_Witness ==
    \E i \in Inv :
        /\ task[i].kind = "cascading_delete"
        /\ pc[i] = "cascading_delete"
        /\ retries[i] > 0
        /\ lock[task[i].key] = i
        /\ cat.layer

\* the Layer is one of a remote service, or its store is a tile store or a
\* remote store
RemoteOrTileLayer ==
    res.remote_service \/ res.storeType \in {"tileStore", "remoteStore"}

\* C18: for a Layer of a remote service or of a tile or remote store, an
\* invocation of the reconciler that gets the lock sends the thumbnail
\* notification once, in its only body step, and returns; no step of the
\* invocation changes the Resource (its dirty flag included), the sessions,
\* the Upload Record or the catalog.
C18_RemoteOrTileOnlySignals ==
    [][\A i \in Inv :
          (task[i].kind = "post_save_layers" /\ RemoteOrTileLayer /\ Steps(i))
          => /\ UNCHANGED <<res, sess, upload, cat>>
             /\ IF InBody(i)
                THEN /\ pc[i] = "r_enter"
                     /\ pc'[i] = "done"
                     /\ sig' = [sig EXCEPT !.post_save_complete = @ + 1]
                ELSE UNCHANGED sig]_vars

\* the reconciler has returned for a Layer of a tile store, having sent its
\* one notification
C18_Witness ==
    \E i \in Inv :
        /\ task[i].kind = "post_save_layers"
        /\ res.storeType = "tileStore"
        /\ pc[i] = "done"
        /\ sig.post_save_complete = 1
        /\ ~res.dirty /\ sess

\* C19: in the reconciler, with the catalog resource found, a failure of one
\* of the five catalog sync steps neither aborts the attempt nor keeps any
\* of the other steps from being executed.
C19_SyncStepsIsolated ==
    [][\A i \in Inv :
          (pc[i] = "r_sync" /\ Steps(i))
          => /\ pc'[i] \notin Raised
             /\ \A k \in 1..Len(SyncSteps) :
                   SyncSteps[k] \in loc'[i].synced \cup loc'[i].failed]_vars

\* the stages of the reconciler from the triggers to its end
TriggerStages == {"r_trigger", "r_signal", "r_sessions", "r_haystack"}

FirstGroupFields == {"alternate", "typename", "workspace", "store",
                     "storeType", "bbox"}

\* C21: the reconciler's two update groups are independent atomic
\* transactions.  The first group either commits all its writes or, when it
\* fails, leaves the row as it was and is logged, and in both cases the
\* second group is attempted next; the second group, committed or failed,
\* leaves the fields the first group wrote as they are and does not raise.
C21_GroupsIndependent ==
    [][\A i \in Inv :
          /\ (pc[i] = "r_tx1" /\ Steps(i))
             => /\ pc'[i] = "r_tx2"
                /\ \/ /\ "group1" \notin loc'[i].failed
                      /\ res'.alternate = loc[i].alternate
                      /\ res'.typename = loc[i].alternate
                      /\ res'.storeType = loc[i].storeType
                      /\ res'.workspace # "" /\ res'.store # ""
                      /\ res'.bbox
                      /\ res'.srid = loc[i].sridv
                   \/ /\ "group1" \in loc'[i].failed
                      /\ res' = res
          /\ (pc[i] = "r_tx2" /\ Steps(i))
             => /\ pc'[i] = "r_groups_done"
                /\ \A f \in FirstGroupFields : res'[f] = res[f]
                /\ res'.ll_bbox \/ ("group2" \in loc'[i].failed /\ res' = res)]_vars

\* the first group has failed on a new Layer, whose row shows none of its
\* writes, and the second group has committed after it
C21_Witness ==
    \E i \in Inv :
        /\ pc[i] = "r_groups_done"
        /\ "group1" \in loc[i].failed
        /\ "group2" \notin loc[i].failed
        /\ res.alternate = "" /\ res.typename = "" /\ res.store = ""
        /\ ~res.bbox
        /\ res.ll_bbox

\* C22: in the finalizer a failed temp-directory cleanup is logged and does
\* not raise; the step after the cleanup marks the Upload Record complete,
\* once in the attempt; and the upload-complete notification is sent only by
\* an attempt that has marked the record complete, as its last step, so at
\* most once per attempt.
C22_CompleteThenNotify ==
    /\ [](\A i \in Inv :
            /\ pc[i] \in {"rmtree", "upload_complete"} => loc[i].marks = 0
            /\ pc[i] = "upload_complete_send"
               => loc[i].marks = 1 /\ upload.complete)
    /\ [][/\ \A i \in Inv :
              /\ (pc[i] = "rmtree" /\ Steps(i))
                 => /\ pc'[i] = "upload_complete"
                    /\ UNCHANGED <<upload, sig>>
              /\ (pc[i] = "upload_complete" /\ Steps(i))
                 => /\ pc'[i] = "upload_complete_send"
                    /\ upload'.complete
                    /\ loc'[i].marks = 1
                    /\ UNCHANGED sig
          /\ sig'.upload_complete # sig.upload_complete
             => /\ sig'.upload_complete = sig.upload_complete + 1
                /\ \E i \in Inv :
                      /\ pc[i] = "upload_complete_send"
                      /\ pc'[i] = "done"]_vars

\* the cleanup has failed and the record has then been marked complete, with
\* the notification still to be sent
C22_Witness ==
    \E i \in Inv :
        /\ pc[i] = "upload_complete_send"
        /\ "rmtree" \in loc[i].failed
        /\ loc[i].marks = 1
        /\ upload.complete
        /\ sig.upload_complete = 0

\* the positions of an invocation outside every `with AcquireLock` block
OutsideWith == Ended \cup {"none", "queued", "lock"}

\* C23: for every task, an invocation outside its with block holds no lock:
\* whichever way an attempt ends (return, early return, uncaught exception,
\* the retry request of the thumbnail task, body not entered) the step that
\* ends it leaves no lock with it; and a retry that finds the lock of its key
\* free acquires it and enters the body.
C23_LockReleasedOnEveryExit ==
    /\ [](\A i \in Inv :
            pc[i] \in OutsideWith => \A k \in DOMAIN lock : lock[k] # i)
    /\ [][\A i \in Inv :
             /\ Ends(i) => \A k \in DOMAIN lock : lock'[k] # i
             /\ (pc[i] = "lock" /\ Steps(i) /\ retries[i] > 0
                   /\ lock[task[i].key] = NoHolder)
                => /\ lock'[task[i].key] = i
                   /\ pc'[i] = FirstStep(task[i].kind)]_vars

\* a retry of the thumbnail task, requested by an earlier attempt that held
\* the lock, holds the lock again and is about to create the thumbnail
C23_Witness ==
    \E i \in Inv :
        /\ task[i].kind = "create_thumbnail"
        /\ retries[i] > 0
        /\ pc[i] = "create_gs_thumbnail"
        /\ lock[task[i].key] = i

====
